---- MODULE Spec2Model ----
(***************************************************************************)
(* A model of tantalum_unit: the tiered integer (scalable_integer.rs), the *)
(* unit algebra (unit.rs) and the quantity layer (quantity.rs).            *)
(*                                                                         *)
(* Every operation of the library is a pure function, so each one is an    *)
(* operator here and each specification draws the operands in Init and     *)
(* applies one operation per action, recording the outcome.                *)
(***************************************************************************)
EXTENDS Integers, Sequences, FiniteSets, TLC

VARIABLES
    overflow_checks,  \* the build: TRUE panics on primitive overflow, FALSE wraps
    op,               \* the operation applied last ("none" before any)
    ia, ib,           \* ScalableInteger operands
    ir,               \* outcome of the integer operation
    retries,          \* promote-and-retry steps of the last add / mul
    qa, qb,           \* Quantity operands
    uto,              \* the target unit of convert_to
    qr,               \* outcome of the quantity operation
    qback,            \* outcome of converting qr back to qa's unit
    ord,              \* outcome of an integer comparison
    ua,               \* Unit operand
    ur,               \* outcome of the unit operation
    ur2,              \* outcome of simplifying ur once more
    flag,             \* outcome of a predicate (is_modifier, ==)
    si,               \* outcome of Unit::to_si_units: <<offset, slope, unit>>
    sym,              \* outcome of Unit::symbol
    aligned           \* outcome of ScalableInteger::max_size: <<lhs, rhs>>

vars ==
    <<overflow_checks, op, ia, ib, ir, retries, qa, qb, uto, qr, qback,
      ord, ua, ur, ur2, flag, si, sym, aligned>>

(***************************************************************************)
(* Bounds.  The tier widths are scaled down from 64 and 128 bits; the      *)
(* medium tier stays twice as wide as the small one, as i128 is to i64.    *)
(***************************************************************************)
SingleBits == 3

DoubleBits == 2 * SingleBits

Pow2(k) == 2 ^ k

MinOf(w) == -Pow2(w - 1)

MaxOf(w) == Pow2(w - 1) - 1

Fits(n, w) == MinOf(w) <= n /\ n <= MaxOf(w)

Abs(n) == IF n < 0 THEN -n ELSE n

Sign(n) == IF n < 0 THEN -1 ELSE IF n = 0 THEN 0 ELSE 1

\* Rust's integer division truncates toward zero (TLA+'s \div floors).
TruncDiv(a, b) == Sign(a) * Sign(b) * (Abs(a) \div Abs(b))

\* Two's complement wrap of n to w bits (overflow-checks off).
Wrap(n, w) == ((n + Pow2(w - 1)) % Pow2(w)) - Pow2(w - 1)

RECURSIVE GcdNat(_, _)
GcdNat(a, b) == IF b = 0 THEN a ELSE GcdNat(b, a % b)

MathGcd(a, b) == GcdNat(Abs(a), Abs(b))

MathLcm(a, b) == IF a = 0 \/ b = 0 THEN 0 ELSE Abs(a * b) \div MathGcd(a, b)

(***************************************************************************)
(* ScalableInteger: a value tagged with its tier.                          *)
(***************************************************************************)
Single(n) == [tier |-> "Single", val |-> n]

Double(n) == [tier |-> "Double", val |-> n]

Big(n) == [tier |-> "Big", val |-> n]

\* A panic (overflow with overflow-checks on, division by zero).
Panic == [tier |-> "Panic", val |-> 0]

\* The value is representable in the tier it is stored in.
WellFormed(x) ==
    CASE x.tier = "Single" -> Fits(x.val, SingleBits)
      [] x.tier = "Double" -> Fits(x.val, DoubleBits)
      [] x.tier = "Big" -> TRUE

\* The smallest tier that represents n exactly.
SmallestTier(n) ==
    IF Fits(n, SingleBits) THEN "Single"
    ELSE IF Fits(n, DoubleBits) THEN "Double" ELSE "Big"

\* Mutant of max_size: the operands are handed on as they are.
max_size_unaligned(a, b) == <<a, b>>

max_size(a, b) ==
    CASE a.tier = "Single" /\ b.tier = "Single" -> <<Single(a.val), Single(b.val)>>
      [] a.tier = "Single" /\ b.tier = "Double" -> <<Double(a.val), Double(b.val)>>
      [] a.tier = "Single" /\ b.tier = "Big" -> <<Big(a.val), Big(b.val)>>
      [] a.tier = "Double" /\ b.tier = "Single" -> <<Double(a.val), Double(b.val)>>
      [] a.tier = "Double" /\ b.tier = "Double" -> <<Double(a.val), Double(b.val)>>
      [] a.tier = "Double" /\ b.tier = "Big" -> <<Big(a.val), Big(b.val)>>
      [] a.tier = "Big" /\ b.tier = "Single" -> <<Big(a.val), Big(b.val)>>
      [] a.tier = "Big" /\ b.tier = "Double" -> <<Big(a.val), Big(b.val)>>
      [] a.tier = "Big" /\ b.tier = "Big" -> <<Big(a.val), Big(b.val)>>

\* The arm that the match on an aligned pair takes in eq, add, mul, div, gcd
\* and lcm.
match_arm(lhs, rhs) ==
    CASE lhs.tier = "Single" /\ rhs.tier = "Single" -> "Single"
      [] lhs.tier = "Double" /\ rhs.tier = "Double" -> "Double"
      [] lhs.tier = "Big" /\ rhs.tier = "Big" -> "Big"
      [] OTHER -> "unreachable"

promote_size(x) ==
    CASE x.tier = "Single" -> Double(x.val)
      [] x.tier = "Double" -> Big(x.val)
      [] x.tier = "Big" -> Big(x.val)

\* Mutant of demote_size: the demotion is forgotten.
demote_size_keep(x) == x

demote_size(x) ==
    CASE x.tier = "Single" -> Single(x.val)
      [] x.tier = "Double" ->
            IF Fits(x.val, SingleBits) THEN Single(x.val) ELSE Double(x.val)
      [] x.tier = "Big" ->
            IF Fits(x.val, SingleBits) THEN Single(x.val)
            ELSE IF Fits(x.val, DoubleBits) THEN Double(x.val)
            ELSE Big(x.val)
      [] x.tier = "Panic" -> Panic

\* impl PartialEq: align the tiers, then compare the values.
Int_eq(a, b) ==
    LET p == max_size(a, b) IN
    CASE p[1].tier = p[2].tier -> p[1].val = p[2].val
      [] OTHER -> FALSE

\* derive(PartialOrd, Ord): the variants compare in declaration order
\* (Single < Double < Big), the payloads only within one variant.
TierRank(x) == CASE x.tier = "Single" -> 0 [] x.tier = "Double" -> 1 [] x.tier = "Big" -> 2

Int_cmp(a, b) ==
    IF TierRank(a) < TierRank(b) THEN "Less"
    ELSE IF TierRank(a) > TierRank(b) THEN "Greater"
    ELSE IF a.val < b.val THEN "Less"
    ELSE IF a.val = b.val THEN "Equal"
    ELSE "Greater"

\* PartialOrd::lt
Int_lt(a, b) == Int_cmp(a, b) = "Less"

\* impl Neg: -n on a primitive overflows on the most negative value; the
\* build decides between a panic and the wrapped result.
Int_neg(x, oc) ==
    CASE x.tier = "Single" ->
            IF x.val = MinOf(SingleBits) /\ oc THEN Panic
            ELSE Single(Wrap(-x.val, SingleBits))
      [] x.tier = "Double" ->
            IF x.val = MinOf(DoubleBits) /\ oc THEN Panic
            ELSE Double(Wrap(-x.val, DoubleBits))
      [] x.tier = "Big" -> Big(-x.val)

\* checked_add / checked_mul / checked_div: TRUE when the result is Some.
checked_add_ok(a, b, w) == Fits(a + b, w)

\* Mutant of checked_mul_ok: wrapping_mul in place of checked_mul.
checked_mul_wraps(a, b, w) == TRUE

checked_mul_ok(a, b, w) == Fits(a * b, w)

checked_div_ok(a, b, w) == b # 0 /\ ~(a = MinOf(w) /\ b = -1)

RECURSIVE Int_add(_, _)
Int_add(self, rhs) ==
    LET p == max_size(self, rhs)
        l == p[1]
        r == p[2]
    IN demote_size(
        CASE l.tier = "Single" ->
                IF checked_add_ok(l.val, r.val, SingleBits)
                THEN Single(Wrap(l.val + r.val, SingleBits))
                ELSE Int_add(promote_size(l), promote_size(r))
          [] l.tier = "Double" ->
                IF checked_add_ok(l.val, r.val, DoubleBits)
                THEN Double(Wrap(l.val + r.val, DoubleBits))
                ELSE Int_add(promote_size(l), promote_size(r))
          [] l.tier = "Big" -> Big(l.val + r.val))

\* The number of promote-and-retry steps Int_add takes.
RECURSIVE Int_add_retries(_, _)
Int_add_retries(self, rhs) ==
    LET p == max_size(self, rhs)
        l == p[1]
        r == p[2]
    IN CASE l.tier = "Single" ->
                IF checked_add_ok(l.val, r.val, SingleBits) THEN 0
                ELSE 1 + Int_add_retries(promote_size(l), promote_size(r))
         [] l.tier = "Double" ->
                IF checked_add_ok(l.val, r.val, DoubleBits) THEN 0
                ELSE 1 + Int_add_retries(promote_size(l), promote_size(r))
         [] l.tier = "Big" -> 0

Int_sub(self, rhs, oc) ==
    LET n == Int_neg(rhs, oc) IN
    IF n = Panic THEN Panic ELSE Int_add(self, n)

RECURSIVE Int_mul(_, _)
Int_mul(self, rhs) ==
    LET p == max_size(self, rhs)
        l == p[1]
        r == p[2]
    IN demote_size(
        CASE l.tier = "Single" ->
                IF checked_mul_ok(l.val, r.val, SingleBits)
                THEN Single(Wrap(l.val * r.val, SingleBits))
                ELSE Int_mul(promote_size(l), promote_size(r))
          [] l.tier = "Double" ->
                IF checked_mul_ok(l.val, r.val, DoubleBits)
                THEN Double(Wrap(l.val * r.val, DoubleBits))
                ELSE Int_mul(promote_size(l), promote_size(r))
          [] l.tier = "Big" -> Big(l.val * r.val))

RECURSIVE Int_mul_retries(_, _)
Int_mul_retries(self, rhs) ==
    LET p == max_size(self, rhs)
        l == p[1]
        r == p[2]
    IN CASE l.tier = "Single" ->
                IF checked_mul_ok(l.val, r.val, SingleBits) THEN 0
                ELSE 1 + Int_mul_retries(promote_size(l), promote_size(r))
         [] l.tier = "Double" ->
                IF checked_mul_ok(l.val, r.val, DoubleBits) THEN 0
                ELSE 1 + Int_mul_retries(promote_size(l), promote_size(r))
         [] l.tier = "Big" -> 0

RECURSIVE Int_div(_, _)
Int_div(self, rhs) ==
    LET p == max_size(self, rhs)
        l == p[1]
        r == p[2]
    IN demote_size(
        CASE l.tier = "Single" ->
                IF checked_div_ok(l.val, r.val, SingleBits)
                THEN Single(TruncDiv(l.val, r.val))
                ELSE Int_div(promote_size(l), promote_size(r))
          [] l.tier = "Double" ->
                IF checked_div_ok(l.val, r.val, DoubleBits)
                THEN Double(TruncDiv(l.val, r.val))
                ELSE Int_div(promote_size(l), promote_size(r))
          [] l.tier = "Big" ->
                IF r.val = 0 THEN Panic ELSE Big(TruncDiv(l.val, r.val)))

\* num's gcd on a primitive of w bits: exact unless the gcd is 2^(w-1),
\* which abs() cannot represent.
gcd_prim(m, n, w, oc) ==
    LET g == MathGcd(m, n) IN
    IF Fits(g, w) THEN [ok |-> TRUE, val |-> g]
    ELSE IF oc THEN [ok |-> FALSE, val |-> 0]
    ELSE [ok |-> TRUE, val |-> Wrap(g, w)]

\* num's lcm on a primitive: (m * (n / gcd)).abs(), unchecked.
lcm_prim(m, n, w, oc) ==
    IF m = 0 /\ n = 0 THEN [ok |-> TRUE, val |-> 0]
    ELSE LET g == gcd_prim(m, n, w, oc) IN
         IF ~g.ok THEN [ok |-> FALSE, val |-> 0]
         ELSE LET prod == m * TruncDiv(n, g.val)
                  wrapped == Wrap(prod, w)
              IN IF oc /\ (~Fits(prod, w) \/ prod = MinOf(w))
                 THEN [ok |-> FALSE, val |-> 0]
                 ELSE [ok |-> TRUE, val |-> Wrap(Abs(wrapped), w)]

FromPrim(tier, res) ==
    IF ~res.ok THEN Panic ELSE [tier |-> tier, val |-> res.val]

Int_gcd(self, other, oc) ==
    LET p == max_size(self, other)
        l == p[1]
        r == p[2]
    IN CASE l.tier = "Single" ->
                FromPrim("Single", gcd_prim(l.val, r.val, SingleBits, oc))
         [] l.tier = "Double" ->
                FromPrim("Double", gcd_prim(l.val, r.val, DoubleBits, oc))
         [] l.tier = "Big" -> Big(MathGcd(l.val, r.val))

Int_lcm(self, other, oc) ==
    LET p == max_size(self, other)
        l == p[1]
        r == p[2]
    IN CASE l.tier = "Single" ->
                FromPrim("Single", lcm_prim(l.val, r.val, SingleBits, oc))
         [] l.tier = "Double" ->
                FromPrim("Double", lcm_prim(l.val, r.val, DoubleBits, oc))
         [] l.tier = "Big" -> Big(MathLcm(l.val, r.val))

\* impl From<...>: the native type is the tier the operand stands for.
From_i64(n) == demote_size(Single(n))

From_i128(n) == demote_size(Double(n))

From_u64(n) == demote_size(Double(n))

From_u128(n) == demote_size(Big(n))

From_BigInt(n) == Big(n)

From_i32(n) == Single(n)

(***************************************************************************)
(* BigRational = Ratio<ScalableInteger>, as <<numer, denom>>.  The unit    *)
(* and quantity layers are modelled on magnitudes whose numerators and     *)
(* denominators stay inside the small tier, where ScalableInteger          *)
(* arithmetic is exact, so they are plain integers here.  The operators    *)
(* follow num's Ratio: cross-cancel by gcd, combine, reduce.               *)
(***************************************************************************)
\* let x = ...; F(x): a value computed once and used in what follows.
Let(x, F(_)) == F(x)

\* The outcome of a Ratio operation that panics ("denominator == 0").
RatioPanic == <<0, 0>>

new_raw(n, d) == <<n, d>>

Ratio_reduce(r) ==
    IF r[2] = 0 THEN RatioPanic
    ELSE IF r[1] = 0 THEN <<0, 1>>
    ELSE IF r[1] = r[2] THEN <<1, 1>>
    ELSE Let(MathGcd(r[1], r[2]), LAMBDA g :
         Let(<<TruncDiv(r[1], g), TruncDiv(r[2], g)>>, LAMBDA q :
             IF q[2] < 0 THEN <<0 - q[1], 0 - q[2]>> ELSE q))

\* ratio!(a, b) = BigRational::new(a, b)
ratio(a, b) == Ratio_reduce(new_raw(a, b))

zero == <<0, 1>>

one == <<1, 1>>

Ratio_add(a, b) ==
    IF a[2] = b[2] THEN Ratio_reduce(<<a[1] + b[1], b[2]>>)
    ELSE Let(MathLcm(a[2], b[2]), LAMBDA lcm :
             Ratio_reduce(<<a[1] * TruncDiv(lcm, a[2]) + b[1] * TruncDiv(lcm, b[2]),
                            lcm>>))

Ratio_sub(a, b) ==
    IF a[2] = b[2] THEN Ratio_reduce(<<a[1] - b[1], b[2]>>)
    ELSE Let(MathLcm(a[2], b[2]), LAMBDA lcm :
             Ratio_reduce(<<a[1] * TruncDiv(lcm, a[2]) - b[1] * TruncDiv(lcm, b[2]),
                            lcm>>))

Ratio_mul(a, b) ==
    Let(MathGcd(a[1], b[2]), LAMBDA gcd_ad :
    Let(MathGcd(a[2], b[1]), LAMBDA gcd_bc :
        Ratio_reduce(<<TruncDiv(a[1], gcd_ad) * TruncDiv(b[1], gcd_bc),
                       TruncDiv(a[2], gcd_bc) * TruncDiv(b[2], gcd_ad)>>)))

\* A zero divisor panics: in ScalableInteger's division when both numerators
\* are zero, in reduce ("denominator == 0") otherwise.
Ratio_div(a, b) ==
    IF b[1] = 0 THEN RatioPanic
    ELSE Let(MathGcd(a[1], b[1]), LAMBDA gcd_ac :
         Let(MathGcd(a[2], b[2]), LAMBDA gcd_bd :
             Ratio_reduce(<<TruncDiv(a[1], gcd_ac) * TruncDiv(b[2], gcd_bd),
                            TruncDiv(a[2], gcd_bd) * TruncDiv(b[1], gcd_ac)>>)))

(***************************************************************************)
(* Unit: an atom of the catalog or Compound(numerator, denominator).       *)
(* Every unit is a record of one shape; an atom has empty lists.           *)
(***************************************************************************)
Atom(name) == [atom |-> name, num |-> <<>>, den |-> <<>>]

Compound(numerator, denominator) ==
    [atom |-> "Compound", num |-> numerator, den |-> denominator]

UNITLESS == Compound(<<>>, <<>>)

IsCompound(u) == u.atom = "Compound"

RECURSIVE flatten(_), flatten_members(_, _), flatten_members_uninverted(_, _)
\* Mutant of flatten_members: a Compound member of the denominator contributes
\* its numerator to the numerator and its denominator to the denominator.
flatten_members_uninverted(units, inverted) ==
    IF units = <<>> THEN <<(<<>>), (<<>>)>>
    ELSE Let(flatten(Head(units)), LAMBDA f :
         Let(IF IsCompound(f)
             THEN <<f.num, f.den>>
             ELSE (IF inverted THEN <<(<<>>), <<f>>>> ELSE <<<<f>>, (<<>>)>>),
             LAMBDA this :
         Let(flatten_members_uninverted(Tail(units), inverted), LAMBDA rest :
             <<this[1] \o rest[1], this[2] \o rest[2]>>)))

\* The contribution <<to numerator, to denominator>> of a member list;
\* inverted for the members of a denominator.
flatten_members(units, inverted) ==
    IF units = <<>> THEN <<(<<>>), (<<>>)>>
    ELSE Let(flatten(Head(units)), LAMBDA f :
         Let(IF IsCompound(f)
             THEN (IF inverted THEN <<f.den, f.num>> ELSE <<f.num, f.den>>)
             ELSE (IF inverted THEN <<(<<>>), <<f>>>> ELSE <<<<f>>, (<<>>)>>),
             LAMBDA this :
         Let(flatten_members(Tail(units), inverted), LAMBDA rest :
             <<this[1] \o rest[1], this[2] \o rest[2]>>)))

flatten(u) ==
    IF IsCompound(u)
    THEN Let(flatten_members(u.num, FALSE), LAMBDA n :
         Let(flatten_members(u.den, TRUE), LAMBDA d :
             Compound(n[1] \o d[1], n[2] \o d[2])))
    ELSE u

to_fraction(u) == IF IsCompound(u) THEN <<u.num, u.den>> ELSE <<<<u>>, (<<>>)>>

\* Mutant of position: the last index, 0 for None.
position_last(s, x) ==
    IF \E k \in 1..Len(s) : s[k] = x
    THEN CHOOSE k \in 1..Len(s) : s[k] = x /\ \A j \in (k + 1)..Len(s) : s[j] # x
    ELSE 0

\* denom.iter().position(|d| d == x): the first index, 0 for None.
position(s, x) ==
    IF \E k \in 1..Len(s) : s[k] = x
    THEN CHOOSE k \in 1..Len(s) : s[k] = x /\ \A j \in 1..(k - 1) : s[j] # x
    ELSE 0

\* Vec::remove(k)
remove(s, k) == [j \in 1..(Len(s) - 1) |-> IF j < k THEN s[j] ELSE s[j + 1]]

\* Mutant of cancel: the loop stops after the first pair it removes.
RECURSIVE cancel_once(_, _, _)
cancel_once(num, denom, i) ==
    IF i > Len(num) THEN <<num, denom>>
    ELSE Let(position(denom, num[i]), LAMBDA pos :
             IF pos # 0 THEN <<remove(num, i), remove(denom, pos)>>
             ELSE cancel_once(num, denom, i + 1))

\* The while loop of simplify, from index i.
RECURSIVE cancel(_, _, _)
cancel(num, denom, i) ==
    IF i > Len(num) THEN <<num, denom>>
    ELSE Let(position(denom, num[i]), LAMBDA pos :
             IF pos # 0 THEN cancel(remove(num, i), remove(denom, pos), i)
             ELSE cancel(num, denom, i + 1))

\* Mutant of simplify: what the loop leaves is returned as a Compound whatever
\* its shape.
simplify_uncollapsed(u) ==
    Let(flatten(u), LAMBDA f :
        IF IsCompound(f)
        THEN Let(cancel(f.num, f.den, 1), LAMBDA c : Compound(c[1], c[2]))
        ELSE f)

simplify(u) ==
    Let(flatten(u), LAMBDA f :
        IF IsCompound(f)
        THEN Let(cancel(f.num, f.den, 1), LAMBDA c :
                 IF c[2] = <<>>
                 THEN (IF Len(c[1]) = 1 THEN c[1][1] ELSE Compound(c[1], <<>>))
                 ELSE Compound(c[1], c[2]))
        ELSE f)

Unit_mul(self, rhs) ==
    LET f1 == to_fraction(self)
        f2 == to_fraction(rhs)
    IN simplify(Compound(f1[1] \o f2[1], f1[2] \o f2[2]))

\* Mutant of Unit_div: the appended lists are returned without simplify.
Unit_div_unsimplified(self, rhs) ==
    Let(to_fraction(self), LAMBDA f1 :
    Let(to_fraction(rhs), LAMBDA f2 :
        Compound(f1[1] \o f2[2], f1[2] \o f2[1])))

Unit_div(self, rhs) ==
    LET f1 == to_fraction(self)
        f2 == to_fraction(rhs)
    IN simplify(Compound(f1[1] \o f2[2], f1[2] \o f2[1]))

\* a * b * c * ... as Rust parses it: ((a * b) * c) * ...
RECURSIVE Product(_)
Product(names) ==
    IF Len(names) = 1 THEN Atom(names[1])
    ELSE Unit_mul(Product(SubSeq(names, 1, Len(names) - 1)), Atom(names[Len(names)]))

is_unitless(u) == u = UNITLESS

\* The arms of is_modifier that return true.
is_modifier_arms ==
    { "Yocto", "Zepto", "Atto", "Femto", "Pico", "Nano", "Micro", "Milli",
      "Centi", "Deci", "Hecto", "Kilo", "Mega", "Giga", "Tera", "Peta", "Exa",
      "Zetta", "Yotta", "Kibi", "Mebi", "Gibi", "Tebi", "Pebi", "Exbi" }

is_modifier(u) == u.atom \in is_modifier_arms

(***************************************************************************)
(* The catalog: to_si_units of an atom is (offset, slope, SI expression).  *)
(* Numbers beyond 32 bits are written as products of smaller ones.         *)
(***************************************************************************)
E10(k) == 10 ^ k

SiModifiers ==
    { "Quecto", "Ronto", "Yocto", "Zepto", "Atto", "Femto", "Pico", "Nano",
      "Micro", "Milli", "Centi", "Deci", "Hecto", "Kilo", "Mega", "Giga",
      "Tera", "Peta", "Exa", "Zetta", "Yotta", "Ronna", "Quetta" }

BinaryModifiers == { "Kibi", "Mebi", "Gibi", "Tebi", "Pebi", "Exbi" }

AtomNames ==
    { "Newton", "Joule", "Ohm", "Hertz", "Volt", "Kelvin", "Celsius",
      "Fahrenheit", "Hectare", "Tesla", "Bit", "Byte", "Siemens", "Watt",
      "Liter", "CubicInch", "CubicFeet", "CubicYard", "Pint", "Quart",
      "Gallon", "Pascal", "Henry", "Mole", "Candela", "Ampere", "Weber",
      "Meter", "AU", "Inch", "Feet", "Yard", "Mile", "NauticalMile",
      "LightYear", "Parsec", "Coulomb", "Gram", "Tonne", "Dram", "Ounce",
      "Pound", "Farad", "Second", "Minute", "Hour", "Day", "Month", "Year" }
        \cup SiModifiers \cup BinaryModifiers

catalog_offset(a) ==
    CASE a = "Celsius" -> ratio(5463, 20)
      [] a = "Fahrenheit" -> ratio(45967, 100)
      [] OTHER -> zero

\* The numerator and denominator each arm hands to ratio!; one!() is 1/1.
slope_fraction(a) ==
    CASE a = "Fahrenheit" -> new_raw(13889, 25000)
      [] a = "Hectare" -> new_raw(10000, 1)
      [] a = "Byte" -> new_raw(8, 1)
      [] a = "Liter" -> new_raw(1, 1000)
      [] a = "CubicInch" -> new_raw(2048383, 125 * E10(9))
      [] a = "CubicFeet" -> new_raw(55306341, 1953125000)
      [] a = "CubicYard" -> new_raw(1493271207, 1953125000)
      [] a = "Pint" -> new_raw(473176473, E10(12))
      [] a = "Quart" -> new_raw(473176473, 5 * E10(11))
      [] a = "Gallon" -> new_raw(473176473, 125 * E10(9))
      [] a = "AU" -> new_raw(149597 * E10(6) + 870691, 1)
      [] a = "Inch" -> new_raw(127, 5000)
      [] a = "Feet" -> new_raw(381, 1250)
      [] a = "Yard" -> new_raw(1143, 1250)
      [] a = "Mile" -> new_raw(201168, 125)
      [] a = "NauticalMile" -> new_raw(1852, 1)
      [] a = "LightYear" -> new_raw(9460730 * E10(9) + 472580800, 1)
      [] a = "Parsec" -> new_raw(30857 * E10(12), 1)
      [] a = "Tonne" -> new_raw(1000000, 1)
      [] a = "Dram" -> new_raw(17718 * E10(6) + 451953, E10(10))
      [] a = "Ounce" -> new_raw(45359237, 1600000)
      [] a = "Pound" -> new_raw(45359237, 100000)
      [] a = "Minute" -> new_raw(60, 1)
      [] a = "Hour" -> new_raw(3600, 1)
      [] a = "Day" -> new_raw(86400, 1)
      [] a = "Month" -> new_raw(2629746, 1)
      [] a = "Year" -> new_raw(31557600, 1)
      [] a = "Quecto" -> new_raw(1, E10(30))
      [] a = "Ronto" -> new_raw(1, E10(27))
      [] a = "Yocto" -> new_raw(1, E10(24))
      [] a = "Zepto" -> new_raw(1, E10(21))
      [] a = "Atto" -> new_raw(1, E10(18))
      [] a = "Femto" -> new_raw(1, E10(15))
      [] a = "Pico" -> new_raw(1, E10(12))
      [] a = "Nano" -> new_raw(1, E10(9))
      [] a = "Micro" -> new_raw(1, E10(6))
      [] a = "Milli" -> new_raw(1, 1000)
      [] a = "Centi" -> new_raw(1, 100)
      [] a = "Deci" -> new_raw(1, 10)
      [] a = "Hecto" -> new_raw(100, 1)
      [] a = "Kilo" -> new_raw(1000, 1)
      [] a = "Mega" -> new_raw(E10(6), 1)
      [] a = "Giga" -> new_raw(E10(9), 1)
      [] a = "Tera" -> new_raw(E10(12), 1)
      [] a = "Peta" -> new_raw(E10(15), 1)
      [] a = "Exa" -> new_raw(E10(18), 1)
      [] a = "Zetta" -> new_raw(E10(21), 1)
      [] a = "Yotta" -> new_raw(E10(24), 1)
      [] a = "Ronna" -> new_raw(E10(27), 1)
      [] a = "Quetta" -> new_raw(E10(30), 1)
      [] a = "Kibi" -> new_raw(Pow2(10), 1)
      [] a = "Mebi" -> new_raw(Pow2(20), 1)
      [] a = "Gibi" -> new_raw(Pow2(30), 1)
      [] a = "Tebi" -> new_raw(Pow2(40), 1)
      [] a = "Pebi" -> new_raw(Pow2(50), 1)
      [] a = "Exbi" -> new_raw(Pow2(60), 1)
      [] OTHER -> new_raw(1, 1)

\* ratio!(n, d) = BigRational::new(n, d): the fraction, reduced.
catalog_slope(a) == Ratio_reduce(slope_fraction(a))

\* The SI expression of each arm as written: <<names multiplied left of the
\* division, names multiplied right of it>>; no name on the left is UNITLESS.
si_expression(a) ==
    CASE a = "Newton" ->
            <<<<"Kilo", "Gram", "Meter">>, <<"Second", "Second">>>>
      [] a = "Joule" ->
            <<<<"Kilo", "Gram", "Meter", "Meter">>, <<"Second", "Second">>>>
      [] a = "Ohm" ->
            <<<<"Kilo", "Gram", "Meter", "Meter">>, <<"Second", "Second", "Second", "Ampere", "Ampere">>>>
      [] a = "Hertz" -> <<(<<>>), <<"Second">>>>
      [] a = "Volt" ->
            <<<<"Kilo", "Gram", "Meter", "Meter">>, <<"Second", "Second", "Second", "Ampere">>>>
      [] a \in {"Kelvin", "Celsius", "Fahrenheit"} -> <<<<"Kelvin">>, (<<>>)>>
      [] a = "Hectare" -> <<<<"Meter", "Meter">>, (<<>>)>>
      [] a = "Tesla" ->
            <<<<"Kilo", "Gram">>, <<"Second", "Second", "Ampere">>>>
      [] a \in {"Bit", "Byte"} -> <<<<"Bit">>, (<<>>)>>
      [] a = "Siemens" ->
            <<<<"Second", "Second", "Second", "Ampere", "Ampere">>, <<"Kilo", "Gram", "Meter", "Meter">>>>
      [] a = "Watt" ->
            <<<<"Kilo", "Gram", "Meter", "Meter">>, <<"Second", "Second", "Second">>>>
      [] a \in {"Liter", "CubicInch", "CubicFeet", "CubicYard", "Pint", "Quart",
                "Gallon"} -> <<<<"Meter", "Meter", "Meter">>, (<<>>)>>
      [] a = "Pascal" ->
            <<<<"Kilo", "Gram">>, <<"Meter", "Second", "Second">>>>
      [] a = "Henry" ->
            <<<<"Kilo", "Gram", "Meter", "Meter">>, <<"Second", "Second", "Ampere", "Ampere">>>>
      [] a = "Mole" -> <<<<"Mole">>, (<<>>)>>
      [] a = "Candela" -> <<<<"Candela">>, (<<>>)>>
      [] a = "Ampere" -> <<<<"Ampere">>, (<<>>)>>
      [] a = "Weber" ->
            <<<<"Kilo", "Gram", "Meter", "Meter">>, <<"Second", "Second", "Ampere">>>>
      [] a \in {"Meter", "AU", "Inch", "Feet", "Yard", "Mile", "NauticalMile",
                "LightYear", "Parsec"} -> <<<<"Meter">>, (<<>>)>>
      [] a = "Coulomb" -> <<<<"Second", "Ampere">>, (<<>>)>>
      [] a \in {"Gram", "Tonne", "Dram", "Ounce", "Pound"} -> <<<<"Gram">>, (<<>>)>>
      [] a = "Farad" ->
            <<<<"Second", "Second", "Second", "Second", "Ampere",
                               "Ampere">>, <<"Kilo", "Gram", "Meter", "Meter">>>>
      [] a \in {"Second", "Minute", "Hour", "Day", "Month", "Year"} -> <<<<"Second">>, (<<>>)>>
      [] a \in SiModifiers \cup BinaryModifiers -> <<(<<>>), (<<>>)>>

\* One side of an SI expression: a * b * c, or UNITLESS.
si_operand(names) == IF names = <<>> THEN UNITLESS ELSE Product(names)

\* The SI expression evaluated with Unit's Mul and Div.
catalog_si(a) ==
    Let(si_expression(a), LAMBDA e :
        IF e[2] = <<>> THEN si_operand(e[1])
        ELSE Unit_div(si_operand(e[1]), si_operand(e[2])))

\* Mutant of si_fold: a member of the denominator multiplies the slope as a
\* member of the numerator does.
RECURSIVE si_fold_uninverted(_, _, _)
si_fold_uninverted(units, acc, inverted) ==
    IF units = <<>> THEN acc
    ELSE Let(catalog_slope(Head(units).atom), LAMBDA n_slope :
             si_fold_uninverted(Tail(units),
                     <<Ratio_add(acc[1], catalog_offset(Head(units).atom)),
                       new_raw(acc[2][1] * n_slope[1], acc[2][2] * n_slope[2]),
                       Append(acc[3], catalog_si(Head(units).atom))>>,
                     inverted))

\* The Compound arm of to_si_units over one member list: the running
\* <<offset, slope, SI members>>; inverted for the denominator.
RECURSIVE si_fold(_, _, _)
si_fold(units, acc, inverted) ==
    IF units = <<>> THEN acc
    ELSE Let(catalog_slope(Head(units).atom), LAMBDA n_slope :
             si_fold(Tail(units),
                     <<Ratio_add(acc[1], catalog_offset(Head(units).atom)),
                       IF inverted
                       THEN new_raw(acc[2][1] * n_slope[2], acc[2][2] * n_slope[1])
                       ELSE new_raw(acc[2][1] * n_slope[1], acc[2][2] * n_slope[2]),
                       Append(acc[3], catalog_si(Head(units).atom))>>,
                     inverted))

\* Mutant of to_si_units: the Compound arm returns the running slope as it
\* stands, without slope.reduced().
to_si_units_unreduced(u) ==
    Let(flatten(u), LAMBDA f :
        IF IsCompound(f)
        THEN Let(si_fold(f.num, <<zero, one, (<<>>)>>, FALSE), LAMBDA n :
             Let(si_fold(f.den, <<n[1], n[2], (<<>>)>>, TRUE), LAMBDA d :
                 <<d[1], d[2], simplify(Compound(n[3], d[3]))>>))
        ELSE <<catalog_offset(f.atom), catalog_slope(f.atom), catalog_si(f.atom)>>)

\* Unit::to_si_units: <<offset, slope, unit>>
to_si_units(u) ==
    Let(flatten(u), LAMBDA f :
        IF IsCompound(f)
        THEN Let(si_fold(f.num, <<zero, one, (<<>>)>>, FALSE), LAMBDA n :
             Let(si_fold(f.den, <<n[1], n[2], (<<>>)>>, TRUE), LAMBDA d :
                 <<d[1], Ratio_reduce(d[2]), simplify(Compound(n[3], d[3]))>>))
        ELSE <<catalog_offset(f.atom), catalog_slope(f.atom), catalog_si(f.atom)>>)

(***************************************************************************)
(* Quantity: [magnitude, unit].  An operation's outcome is                 *)
(* [ok, panic, q]: Ok(q), Err(()) (ok = FALSE) or a panic.                 *)
(***************************************************************************)
Quantity(m, u) == [magnitude |-> m, unit |-> u]

NoUnit == UNITLESS

NoQuantity == Quantity(zero, NoUnit)

Returned(q) == [ok |-> TRUE, panic |-> FALSE, q |-> q]

Err == [ok |-> FALSE, panic |-> FALSE, q |-> NoQuantity]

Panicked == [ok |-> FALSE, panic |-> TRUE, q |-> NoQuantity]

NoResult == Returned(NoQuantity)

NoSi == <<zero, one, NoUnit>>

\* Mutant of Quantity_convert_to: the target's offset is added, not subtracted.
Quantity_convert_to_adds_offset(self, to) ==
    Let(to_si_units(self.unit), LAMBDA s :
    Let(to_si_units(to), LAMBDA t :
        IF s[3] # t[3] THEN Err
        ELSE Returned(Quantity(
                Ratio_add(Ratio_div(Ratio_mul(Ratio_add(self.magnitude, s[1]), s[2]),
                                    t[2]), t[1]),
                to))))

\* Mutant of Quantity_convert_to: the division by the target's slope is left out.
Quantity_convert_to_undivided(self, to) ==
    Let(to_si_units(self.unit), LAMBDA s :
    Let(to_si_units(to), LAMBDA t :
        IF s[3] # t[3] THEN Err
        ELSE Returned(Quantity(
                Ratio_sub(Ratio_mul(Ratio_add(self.magnitude, s[1]), s[2]), t[1]),
                to))))

\* Mutant of Quantity_convert_to: the SI expressions are not compared.
Quantity_convert_to_unchecked(self, to) ==
    Let(to_si_units(self.unit), LAMBDA s :
    Let(to_si_units(to), LAMBDA t :
        Returned(Quantity(
            Ratio_sub(Ratio_div(Ratio_mul(Ratio_add(self.magnitude, s[1]), s[2]),
                                t[2]), t[1]),
            to))))

\* s = (offset, slope, unit) of self.unit, t = (offset_to, slope_to, unit_to).
Quantity_convert_to(self, to) ==
    Let(to_si_units(self.unit), LAMBDA s :
    Let(to_si_units(to), LAMBDA t :
        IF s[3] # t[3] THEN Err
        ELSE LET m1 == Ratio_add(self.magnitude, s[1])
                 m2 == Ratio_mul(m1, s[2])
                 m3 == Ratio_div(m2, t[2])
                 m4 == Ratio_sub(m3, t[1])
             IN Returned(Quantity(m4, to))))

\* Mutant of Quantity_to_si_units: the offset is not added.
Quantity_to_si_units_no_offset(self) ==
    Let(to_si_units(self.unit), LAMBDA t :
        Quantity(Ratio_mul(self.magnitude, t[2]), t[3]))

Quantity_to_si_units(self) ==
    Let(to_si_units(self.unit), LAMBDA t :
        Quantity(Ratio_mul(Ratio_add(self.magnitude, t[1]), t[2]), t[3]))

\* One loop of apply_modifiers: <<new_magnitude, units kept>>; the
\* denominator's loop (inverted) divides.
\* Mutant of apply_fold: a prefix of the denominator is dropped without
\* dividing the magnitude.
RECURSIVE apply_fold_numerator_only(_, _, _)
apply_fold_numerator_only(units, acc, inverted) ==
    IF units = <<>> THEN acc
    ELSE apply_fold_numerator_only(Tail(units),
                    IF is_modifier(Head(units))
                    THEN <<IF inverted THEN acc[1]
                           ELSE Ratio_mul(acc[1], to_si_units(Head(units))[2]),
                           acc[2]>>
                    ELSE <<acc[1], Append(acc[2], Head(units))>>,
                    inverted)

RECURSIVE apply_fold(_, _, _)
apply_fold(units, acc, inverted) ==
    IF units = <<>> THEN acc
    ELSE apply_fold(Tail(units),
                    IF is_modifier(Head(units))
                    THEN <<IF inverted
                           THEN Ratio_div(acc[1], to_si_units(Head(units))[2])
                           ELSE Ratio_mul(acc[1], to_si_units(Head(units))[2]),
                           acc[2]>>
                    ELSE <<acc[1], Append(acc[2], Head(units))>>,
                    inverted)

Quantity_apply_modifiers(self) ==
    Let(to_fraction(flatten(self.unit)), LAMBDA f :
    Let(apply_fold(f[1], <<self.magnitude, (<<>>)>>, FALSE), LAMBDA n :
    Let(apply_fold(f[2], <<n[1], (<<>>)>>, TRUE), LAMBDA d :
        Quantity(d[1], simplify(Compound(n[2], d[2]))))))

\* Mutant of Quantity_eq: the magnitudes are compared as rational values.
Quantity_eq_by_value(self, other) ==
    /\ self.unit = other.unit
    /\ self.magnitude[1].val * other.magnitude[2].val
            = other.magnitude[1].val * self.magnitude[2].val

\* impl PartialEq for Quantity, on magnitudes <<numer, denom>> of
\* ScalableIntegers.
Quantity_eq(self, other) ==
    /\ self.unit = other.unit
    /\ Int_eq(self.magnitude[2], other.magnitude[2])
    /\ Int_eq(self.magnitude[1], other.magnitude[1])

Quantity_mul(self, rhs) ==
    Returned(Quantity(Ratio_mul(self.magnitude, rhs.magnitude),
                      Unit_mul(self.unit, rhs.unit)))

Quantity_div(self, rhs) ==
    Let(Ratio_div(self.magnitude, rhs.magnitude), LAMBDA m :
        IF m = RatioPanic THEN Panicked
        ELSE Returned(Quantity(m, Unit_div(self.unit, rhs.unit))))

\* Mutant of Quantity_add: the right operand is added unconverted.
Quantity_add_unconverted(self, rhs) ==
    IF to_si_units(rhs.unit)[3] # to_si_units(self.unit)[3] THEN Panicked
    ELSE Returned(Quantity(Ratio_add(self.magnitude, rhs.magnitude), self.unit))

\* c is self.convert_to(...): expect panics on Err.
Quantity_add(self, rhs) ==
    Let(Quantity_convert_to(rhs, self.unit), LAMBDA c :
        IF ~c.ok THEN Panicked
        ELSE Returned(Quantity(Ratio_add(self.magnitude, c.q.magnitude), self.unit)))

Quantity_sub(self, rhs) ==
    Let(Quantity_convert_to(rhs, self.unit), LAMBDA c :
        IF ~c.ok THEN Panicked
        ELSE Returned(Quantity(Ratio_sub(self.magnitude, c.q.magnitude), self.unit)))

(***************************************************************************)
(* The integer specification: two operands of any tier, stored in any     *)
(* tier that holds them (the enum's constructors are public), one         *)
(* operation applied.                                                      *)
(***************************************************************************)
SingleInputs == MinOf(SingleBits) .. MaxOf(SingleBits)

DoubleInputs ==
    { MinOf(DoubleBits), MinOf(DoubleBits) + 1, MinOf(SingleBits) - 1,
      MinOf(SingleBits), -1, 0, 1, 2, MaxOf(SingleBits), MaxOf(SingleBits) + 1,
      MaxOf(DoubleBits) - 1, MaxOf(DoubleBits) }

BigInputs ==
    { MinOf(DoubleBits) - 1, MinOf(DoubleBits), MinOf(SingleBits), -2, 0, 1, 3,
      MaxOf(SingleBits) + 1, MaxOf(DoubleBits), MaxOf(DoubleBits) + 1,
      2 * MaxOf(DoubleBits) + 2 }

IntInputs ==
    { Single(n) : n \in SingleInputs } \cup { Double(n) : n \in DoubleInputs }
        \cup { Big(n) : n \in BigInputs }

InitInt ==
    /\ overflow_checks \in BOOLEAN
    /\ op = "none"
    /\ ia \in IntInputs
    /\ ib \in IntInputs
    /\ ir = Single(0)
    /\ retries = 0
    /\ qa = NoQuantity
    /\ qb = NoQuantity
    /\ uto = NoUnit
    /\ qr = NoResult
    /\ qback = NoResult
    /\ ord = "None"
    /\ ua = NoUnit
    /\ ur = NoUnit
    /\ ur2 = NoUnit
    /\ flag = FALSE
    /\ si = NoSi
    /\ sym = ""
    /\ aligned = <<Single(0), Single(0)>>

IntDone(name, result, n) ==
    /\ op = "none"
    /\ op' = name
    /\ ir' = result
    /\ retries' = n
    /\ UNCHANGED <<overflow_checks, ia, ib, qa, qb, uto, qr, qback, ord, ua, ur, ur2, flag,
                   si, sym, aligned>>

IntNeg == IntDone("neg", Int_neg(ia, overflow_checks), 0)

IntAdd == IntDone("add", Int_add(ia, ib), Int_add_retries(ia, ib))

IntSub == IntDone("sub", Int_sub(ia, ib, overflow_checks), 0)

IntMul == IntDone("mul", Int_mul(ia, ib), Int_mul_retries(ia, ib))

IntDiv == IntDone("div", Int_div(ia, ib), 0)

IntGcd == IntDone("gcd", Int_gcd(ia, ib, overflow_checks), 0)

IntLcm == IntDone("lcm", Int_lcm(ia, ib, overflow_checks), 0)

\* From a signed native integer or a BigInt: the operand's tier stands for
\* the native type (i64, i128, BigInt).
IntFromSigned ==
    IntDone("from_signed",
            CASE ia.tier = "Single" -> From_i64(ia.val)
              [] ia.tier = "Double" -> From_i128(ia.val)
              [] ia.tier = "Big" -> From_BigInt(ia.val),
            0)

\* From an unsigned native integer (u32, u64, u128).
IntFromUnsigned ==
    /\ ia.val >= 0
    /\ ia.tier = "Double" => ia.val < Pow2(SingleBits)
    /\ ia.tier = "Big" => ia.val < Pow2(DoubleBits)
    /\ IntDone("from_unsigned",
               CASE ia.tier = "Single" -> From_i32(ia.val)
                 [] ia.tier = "Double" -> From_u64(ia.val)
                 [] ia.tier = "Big" -> From_u128(ia.val),
               0)

IntCmp ==
    /\ op = "none"
    /\ op' = "cmp"
    /\ ord' = Int_cmp(ia, ib)
    /\ UNCHANGED <<overflow_checks, ia, ib, ir, retries, qa, qb, uto, qr, qback, ua, ur,
                   ur2, flag,
                   si, sym, aligned>>

IntMaxSize ==
    /\ op = "none"
    /\ op' = "max_size"
    /\ aligned' = max_size(ia, ib)
    /\ UNCHANGED <<overflow_checks, ia, ib, ir, retries, qa, qb, uto, qr, qback, ord, ua,
                   ur, ur2, flag, si, sym>>

NextInt ==
    \/ IntNeg
    \/ IntAdd
    \/ IntSub
    \/ IntMul
    \/ IntDiv
    \/ IntGcd
    \/ IntLcm
    \/ IntFromSigned
    \/ IntFromUnsigned
    \/ IntCmp
    \/ IntMaxSize

SpecInt == InitInt /\ [][NextInt]_vars

Canonical(x) == x.tier = SmallestTier(x.val)

ExactlyDivides(b, a) == b # 0 /\ a % Abs(b) = 0

\* C7: add and mul return the mathematically exact sum / product for operands
\* of any tiers, never panic, and take at most two promote-and-retry steps.
C7_AddMulExact ==
    /\ op = "add" =>
        ir # Panic /\ WellFormed(ir) /\ ir.val = ia.val + ib.val /\ retries <= 2
    /\ op = "mul" =>
        ir # Panic /\ WellFormed(ir) /\ ir.val = ia.val * ib.val /\ retries <= 2

\* C7 witness: a product of two medium-tier operands that overflowed the
\* medium tier, was retried in the unbounded tier and stays there.
C7_Witness ==
    /\ op = "mul"
    /\ ia.tier = "Double"
    /\ ib.tier = "Double"
    /\ retries = 1
    /\ ir.tier = "Big"
    /\ ir.val = ia.val * ib.val

\* C8: neg, sub, exact div by a nonzero divisor, gcd and lcm return the
\* mathematically exact integer for operands of any tier (stated as the claim
\* states it; the code violates it).
C8_NegSubDivGcdLcmExact ==
    /\ op = "neg" => ir # Panic /\ ir.val = -ia.val
    /\ op = "sub" => ir # Panic /\ ir.val = ia.val - ib.val
    /\ (op = "div" /\ ExactlyDivides(ib.val, ia.val)) =>
            ir # Panic /\ ir.val * ib.val = ia.val
    /\ op = "gcd" => ir # Panic /\ ir.val = MathGcd(ia.val, ib.val)
    /\ op = "lcm" => ir # Panic /\ ir.val = MathLcm(ia.val, ib.val)

\* C9: the result of add, sub, mul and div is stored in the smallest tier
\* that represents it, whatever the operands' tiers.
C9_ResultInSmallestTier ==
    (op \in {"add", "sub", "mul", "div"} /\ ir # Panic) => Canonical(ir)

\* C9 witness: a division whose small-tier attempt failed (most negative
\* value by -1), was retried one tier up and whose result stays there.
C9_Witness ==
    /\ op = "div"
    /\ ia = Single(MinOf(SingleBits))
    /\ ib = Single(-1)
    /\ ir = Double(-MinOf(SingleBits))

\* C10: the result of neg, gcd, lcm and of a conversion from a native integer
\* or a BigInt is stored in the smallest tier that represents it (stated as
\* the claim states it, for operands that are themselves in their smallest
\* tier; the code violates it).
C10_SmallestTierAfterAnyOp ==
    /\ (op = "neg" /\ Canonical(ia) /\ ir # Panic) => Canonical(ir)
    /\ (op \in {"gcd", "lcm"} /\ Canonical(ia) /\ Canonical(ib) /\ ir # Panic) =>
            Canonical(ir)
    /\ op \in {"from_signed", "from_unsigned"} => Canonical(ir)

\* C11: compare / less-than on two ScalableIntegers agrees with the numeric
\* order of the integers they hold, whatever tiers they are stored in (stated
\* as the claim states it; the code violates it).
C11_OrderingIsNumeric ==
    op = "cmp" =>
        /\ ord = "Less" <=> ia.val < ib.val
        /\ ord = "Equal" <=> ia.val = ib.val
        /\ ord = "Greater" <=> ia.val > ib.val
        /\ Int_lt(ia, ib) <=> ia.val < ib.val

(***************************************************************************)
(* The quantity specification: two quantities, one operation applied; a    *)
(* successful convert_to may be followed by the conversion back.           *)
(***************************************************************************)
JoulePerSecond == Unit_div(Atom("Joule"), Atom("Second"))

KiloWatt == Unit_mul(Atom("Kilo"), Atom("Watt"))

NewtonMeter == Unit_mul(Atom("Newton"), Atom("Meter"))

MeterNewton == Unit_mul(Atom("Meter"), Atom("Newton"))

MeterSecond == Unit_mul(Atom("Meter"), Atom("Second"))

SecondMeter == Unit_mul(Atom("Second"), Atom("Meter"))

\* Compound values built directly (c! / Unit::Compound): nested, unsimplified.
NestedJoulePerSecond == Compound(<<Compound(<<Atom("Joule")>>, <<Atom("Second")>>)>>, <<>>)

MeterSecondPerSecond == Compound(<<Atom("Meter"), Atom("Second")>>, <<Atom("Second")>>)

Units ==
    { Atom(a) : a \in {"Meter", "Inch", "Celsius", "Fahrenheit", "Joule"} }
        \cup { UNITLESS, JoulePerSecond, KiloWatt, NewtonMeter, MeterNewton,
               MeterSecond, SecondMeter, NestedJoulePerSecond,
               MeterSecondPerSecond }

\* 2/4 is an unreduced magnitude (BigRational::new_raw).
Magnitudes == { <<0, 1>>, <<2, 4>>, <<-3, 1>>, <<152, 1>> }

Quantities ==
    { Quantity(m, u) : m \in Magnitudes, u \in Units }
        \cup { Quantity(<<3800, 1>>, JoulePerSecond) }

Init ==
    /\ overflow_checks = TRUE
    /\ op = "none"
    /\ ia = Single(0)
    /\ ib = Single(0)
    /\ ir = Single(0)
    /\ retries = 0
    /\ qa \in Quantities
    /\ qb \in Quantities
    /\ uto = NoUnit
    /\ qr = NoResult
    /\ qback = NoResult
    /\ ord = "None"
    /\ ua = NoUnit
    /\ ur = NoUnit
    /\ ur2 = NoUnit
    /\ flag = FALSE
    /\ si = NoSi
    /\ sym = ""
    /\ aligned = <<Single(0), Single(0)>>

QuantityDone(name, result) ==
    /\ op = "none"
    /\ op' = name
    /\ qr' = result
    /\ UNCHANGED <<overflow_checks, ia, ib, ir, retries, qa, qb, uto, qback, ord, ua, ur,
                 ur2, flag,
                   si, sym, aligned>>

ConvertTo ==
    \E to \in Units :
        /\ op = "none"
        /\ op' = "convert_to"
        /\ uto' = to
        /\ qr' = Quantity_convert_to(qa, to)
        /\ UNCHANGED <<overflow_checks, ia, ib, ir, retries, qa, qb, qback, ord, ua,
                     ur, ur2, flag,
                   si, sym, aligned>>

ConvertBack ==
    /\ op = "convert_to"
    /\ qr.ok
    /\ op' = "convert_back"
    /\ qback' = Quantity_convert_to(qr.q, qa.unit)
    /\ UNCHANGED <<overflow_checks, ia, ib, ir, retries, qa, qb, uto, qr, ord, ua, ur,
                 ur2, flag,
                   si, sym, aligned>>

Add == QuantityDone("add", Quantity_add(qa, qb))

Sub == QuantityDone("sub", Quantity_sub(qa, qb))

Mul == QuantityDone("mul", Quantity_mul(qa, qb))

Div == QuantityDone("div", Quantity_div(qa, qb))

Next ==
    \/ ConvertTo
    \/ ConvertBack
    \/ Add
    \/ Sub
    \/ Mul
    \/ Div

Spec == Init /\ [][Next]_vars

IsAtom(u) == ~IsCompound(u)

Count(s, x) == Cardinality({ k \in 1..Len(s) : s[k] = x })

\* The same atoms with the same multiplicities on the same side.
SameAtoms(u, v) ==
    LET fu == to_fraction(u)
        fv == to_fraction(v)
    IN \A a \in AtomNames :
        /\ Count(fu[1], Atom(a)) = Count(fv[1], Atom(a))
        /\ Count(fu[2], Atom(a)) = Count(fv[2], Atom(a))

SiUnit(u) == to_si_units(u)[3]

\* Equality of two fractions as rational values.
RatEq(x, y) == x[1] * y[2] = y[1] * x[2]

InLowestTerms(x) == x[2] > 0 /\ MathGcd(x[1], x[2]) = 1

\* (value + offset) * slope of a magnitude in unit u.
SiValue(m, u) == Ratio_mul(Ratio_add(m, to_si_units(u)[1]), to_si_units(u)[2])

\* C1: convert_to returns Ok exactly when the SI expressions of source and
\* target hold the same atoms with the same multiplicities on the same side,
\* and Err otherwise (stated as the claim states it; the code violates it).
C1_ConvertIffSameAtoms ==
    op = "convert_to" =>
        /\ ~qr.panic
        /\ qr.ok <=> SameAtoms(SiUnit(qa.unit), SiUnit(uto))

C3_ConvertFormula ==
    (op = "convert_to" /\ qr.ok) =>
        /\ qr.q.unit = uto
        /\ SiValue(qr.q.magnitude, uto) = SiValue(qa.magnitude, qa.unit)
        /\ (qa = Quantity(<<152, 1>>, Atom("Meter")) /\ uto = Atom("Inch")) =>
                qr.q.magnitude = <<760000, 127>>
        /\ (qa = Quantity(<<3800, 1>>, JoulePerSecond) /\ uto = KiloWatt) =>
                /\ RatEq(qr.q.magnitude, <<38, 10>>)
                /\ InLowestTerms(qr.q.magnitude)

\* C3 witness: 152 Fahrenheit converted to Celsius, offsets and slope in play.
C3_Witness ==
    /\ op = "convert_to"
    /\ qa = Quantity(<<152, 1>>, Atom("Fahrenheit"))
    /\ uto = Atom("Celsius")
    /\ qr.ok
    /\ qr.q.unit = Atom("Celsius")
    /\ qr.q.magnitude[1] > 0

C5_AddSubMagnitude ==
    /\ (op = "add" /\ qr.ok) =>
        /\ qr.q.unit = qa.unit
        /\ Ratio_sub(qr.q.magnitude, qa.magnitude)
                = Quantity_convert_to(qb, qa.unit).q.magnitude
        /\ qa.unit = qb.unit =>
                RatEq(qr.q.magnitude,
                      <<qa.magnitude[1] * qb.magnitude[2]
                            + qb.magnitude[1] * qa.magnitude[2],
                        qa.magnitude[2] * qb.magnitude[2]>>)
        /\ (qa = Quantity(<<152, 1>>, Atom("Meter"))
                /\ qb = Quantity(<<152, 1>>, Atom("Inch"))) =>
                qr.q.magnitude = <<97413, 625>>
    /\ (op = "sub" /\ qr.ok) =>
        /\ qr.q.unit = qa.unit
        /\ Ratio_sub(qa.magnitude, qr.q.magnitude)
                = Quantity_convert_to(qb, qa.unit).q.magnitude
        /\ qa.unit = qb.unit =>
                RatEq(qr.q.magnitude,
                      <<qa.magnitude[1] * qb.magnitude[2]
                            - qb.magnitude[1] * qa.magnitude[2],
                        qa.magnitude[2] * qb.magnitude[2]>>)

\* C5 witness: 152 Meter + 152 Inch = 97413/625 Meter.
C5_Witness ==
    /\ op = "add"
    /\ qa = Quantity(<<152, 1>>, Atom("Meter"))
    /\ qb = Quantity(<<152, 1>>, Atom("Inch"))
    /\ qr = Returned(Quantity(<<97413, 625>>, Atom("Meter")))

\* C6: multiply and divide return a quantity for every pair of quantities,
\* whatever their units and magnitudes (stated as the claim states it; the
\* code violates it).
C6_MulDivAlwaysSucceed ==
    op \in {"mul", "div"} => qr.ok /\ ~qr.panic

(***************************************************************************)
(* The unit specification: one unit and one quantity, one operation        *)
(* applied; a simplify may be followed by a second simplify.               *)
(***************************************************************************)
\* The longest member list of the generated flat Compounds.
MaxMembers == 2

Meter == Atom("Meter")

Second == Atom("Second")

Gram == Atom("Gram")

MemberLists == UNION { [1..n -> {Meter, Second}] : n \in 0..MaxMembers }

\* Every Compound of Meter and Second with short member lists, cancelled or not.
FlatCompounds == { Compound(n, d) : n, d \in MemberLists }

\* Longer lists with repeated atoms, where the order of cancellation shows.
RepeatedCompounds ==
    { Compound(<<Second, Meter, Second, Second>>, <<Second, Gram, Second>>),
      Compound(<<Second, Meter>>, <<Meter, Second, Meter, Second>>),
      Compound(<<Gram, Meter, Gram>>, <<Second, Gram, Meter, Second>>),
      Compound(<<Meter>>, <<Meter, Second, Meter>>),
      Compound(<<Atom("Year")>>, <<Atom("Ounce"), Atom("Year")>>) }

\* Compounds with Compound members, to depth three.
NestedCompounds ==
    { Compound(<<Compound(<<Meter>>, <<Second>>)>>, <<Second>>),
      Compound(<<Meter>>, <<Compound(<<Meter>>, <<Second>>)>>),
      Compound(<<>>, <<Compound(<<>>, <<Meter>>)>>),
      Compound(<<UNITLESS, Meter>>, <<UNITLESS>>),
      Compound(<<Compound(<<Meter, Second>>, <<Gram>>), Gram>>,
               <<Compound(<<Second>>, <<Meter, Gram>>)>>),
      Compound(<<Compound(<<Compound(<<Atom("Joule")>>, <<Second>>)>>, <<Meter>>)>>,
               <<Compound(<<Gram>>, <<Compound(<<Second>>, <<Gram>>)>>)>>),
      Compound(<<Meter, Compound(<<Second>>, <<Compound(<<Gram>>, <<Meter>>)>>)>>,
               <<Compound(<<Compound(<<Second>>, <<Gram>>)>>, <<Second>>)>>) }

(***************************************************************************)
(* Unit::symbol.  An IndexMap<String, usize> is the sequence of its        *)
(* <<symbol, count>> entries in insertion order.                           *)
(***************************************************************************)
\* The symbol arms of the atoms.
atom_symbol(a) ==
    CASE a = "Newton" -> "N"
      [] a = "Joule" -> "J"
      [] a = "Ohm" -> "ohm"
      [] a = "Hertz" -> "Hz"
      [] a = "Volt" -> "V"
      [] a = "Kelvin" -> "K"
      [] a = "Celsius" -> "C"
      [] a = "Fahrenheit" -> "F"
      [] a = "Hectare" -> "ha"
      [] a = "Tesla" -> "T"
      [] a = "Bit" -> "b"
      [] a = "Byte" -> "B"
      [] a = "Siemens" -> "S"
      [] a = "Watt" -> "W"
      [] a = "Liter" -> "L"
      [] a = "CubicInch" -> "in^3"
      [] a = "CubicFeet" -> "ft^3"
      [] a = "CubicYard" -> "yd^3"
      [] a = "Pint" -> "pt"
      [] a = "Quart" -> "qt"
      [] a = "Gallon" -> "gal"
      [] a = "Pascal" -> "Pa"
      [] a = "Henry" -> "H"
      [] a = "Quecto" -> "q"
      [] a = "Ronto" -> "r"
      [] a = "Yocto" -> "y"
      [] a = "Zepto" -> "z"
      [] a = "Atto" -> "a"
      [] a = "Femto" -> "f"
      [] a = "Pico" -> "p"
      [] a = "Nano" -> "n"
      [] a = "Micro" -> "µ"
      [] a = "Milli" -> "m"
      [] a = "Centi" -> "c"
      [] a = "Deci" -> "d"
      [] a = "Hecto" -> "h"
      [] a = "Kilo" -> "k"
      [] a = "Mega" -> "M"
      [] a = "Giga" -> "G"
      [] a = "Tera" -> "T"
      [] a = "Peta" -> "P"
      [] a = "Exa" -> "E"
      [] a = "Zetta" -> "Z"
      [] a = "Yotta" -> "Y"
      [] a = "Ronna" -> "R"
      [] a = "Quetta" -> "Q"
      [] a = "Mole" -> "mol"
      [] a = "Candela" -> "cd"
      [] a = "Ampere" -> "A"
      [] a = "Weber" -> "Wb"
      [] a = "Kibi" -> "Ki"
      [] a = "Mebi" -> "Mi"
      [] a = "Gibi" -> "Gi"
      [] a = "Tebi" -> "Ti"
      [] a = "Pebi" -> "Pi"
      [] a = "Exbi" -> "Ei"
      [] a = "Meter" -> "m"
      [] a = "AU" -> "ua"
      [] a = "Inch" -> "in"
      [] a = "Feet" -> "ft"
      [] a = "Yard" -> "yd"
      [] a = "Mile" -> "mi"
      [] a = "NauticalMile" -> "nmi"
      [] a = "LightYear" -> "ly"
      [] a = "Parsec" -> "pc"
      [] a = "Coulomb" -> "C"
      [] a = "Gram" -> "g"
      [] a = "Tonne" -> "t"
      [] a = "Dram" -> "dr"
      [] a = "Ounce" -> "oz"
      [] a = "Pound" -> "lb"
      [] a = "Farad" -> "F"
      [] a = "Second" -> "s"
      [] a = "Minute" -> "min"
      [] a = "Hour" -> "h"
      [] a = "Day" -> "d"
      [] a = "Month" -> "mo"
      [] a = "Year" -> "yr"

\* *counts.entry(symbol).or_insert(0) += 1
entry_add(counts, symbol) ==
    IF \E k \in 1..Len(counts) : counts[k][1] = symbol
    THEN [k \in 1..Len(counts) |->
            IF counts[k][1] = symbol THEN <<symbol, counts[k][2] + 1>> ELSE counts[k]]
    ELSE Append(counts, <<symbol, 1>>)

\* Mutant of format_units: a repeated symbol is written without its exponent.
RECURSIVE format_units_plain(_)
format_units_plain(counts) ==
    IF counts = <<>> THEN ""
    ELSE Head(counts)[1] \o format_units_plain(Tail(counts))

RECURSIVE format_units(_)
format_units(counts) ==
    IF counts = <<>> THEN ""
    ELSE (IF Head(counts)[2] > 1
          THEN Head(counts)[1] \o "^" \o ToString(Head(counts)[2])
          ELSE Head(counts)[1])
         \o format_units(Tail(counts))

RECURSIVE symbol(_), count_units(_, _)
count_units(units, counts) ==
    IF units = <<>> THEN counts
    ELSE count_units(Tail(units), entry_add(counts, symbol(Head(units))))

symbol(u) ==
    IF IsCompound(u)
    THEN (IF u.num = <<>> /\ u.den = <<>> THEN ""
          ELSE Let(format_units(count_units(u.num, <<>>)), LAMBDA numerator :
               Let(format_units(count_units(u.den, <<>>)), LAMBDA denominator :
                   IF numerator = "" THEN "1/" \o denominator
                   ELSE IF denominator = "" THEN numerator
                   ELSE numerator \o "/" \o denominator)))
    ELSE atom_symbol(u.atom)

\* Compounds whose members share a rendered symbol, or render to nothing.
SymbolCompounds ==
    { Compound(<<Atom("Volt"), Atom("Ampere")>>, <<Second>>),
      Compound(<<Atom("Ampere"), Atom("Volt")>>, <<Second>>),
      Compound(<<Atom("Milli"), Meter>>, <<>>),
      Compound(<<Meter, Atom("Hecto"), Meter, Atom("Hour")>>, <<Atom("Day"), Second, Atom("Deci")>>),
      Compound(<<Atom("Inch"), Atom("Inch"), Atom("Inch")>>, <<Atom("CubicInch")>>),
      Compound(<<UNITLESS>>, <<>>),
      Compound(<<UNITLESS>>, <<Second>>),
      Compound(<<Compound(<<Meter>>, <<Second>>), Compound(<<Meter>>, <<Second>>)>>, <<>>) }

\* Compounds of atoms with an offset or a slope other than one.
ScaledCompounds ==
    { Compound(<<Atom("Celsius")>>, <<Atom("Fahrenheit")>>),
      Compound(<<Atom("Celsius"), Atom("Inch")>>, <<Atom("Celsius")>>),
      Compound(<<Meter>>, <<Compound(<<Second>>, <<Atom("Fahrenheit")>>)>>),
      Compound(<<Atom("Kilo"), Atom("Inch")>>, <<Atom("Minute"), Atom("Milli")>>),
      Compound(<<Atom("Newton"), Atom("Hour")>>, <<Atom("Hectare")>>) }

UnitInputs ==
    { Atom(a) : a \in AtomNames }
        \cup FlatCompounds \cup RepeatedCompounds \cup NestedCompounds
        \cup ScaledCompounds \cup SymbolCompounds

KiloMeter == Unit_mul(Atom("Kilo"), Meter)

MegaMeterPerKilo == Unit_div(Unit_mul(Atom("Mega"), Meter), Atom("Kilo"))

MeterPerMilli == Unit_div(Meter, Atom("Milli"))

RonnaMeter == Unit_mul(Atom("Ronna"), Meter)

KibiByte == Unit_mul(Atom("Kibi"), Atom("Byte"))

\* A Compound built directly, with Newton left on both sides.
MeterGramNewtonPerNewton ==
    Compound(<<Meter, Gram, Atom("Newton")>>, <<Atom("Newton")>>)

QuantityInputs ==
    { Quantity(m, u) :
        m \in { <<12, 1>>, <<13, 1>>, <<2, 4>> },
        u \in { Meter, Atom("Celsius"), Atom("Byte"), Atom("Joule"), KiloMeter,
                MeterPerMilli, RonnaMeter, KibiByte, KiloWatt,
                MeterSecondPerSecond } }
        \cup { Quantity(<<0, 1>>, Atom("Celsius")),
               Quantity(<<25, 1>>, MegaMeterPerKilo),
               Quantity(<<12, 1>>, MeterGramNewtonPerNewton) }

\* The magnitudes of the divisor in a division by a quantity of the same unit.
Divisors == { <<0, 1>>, <<999, 1>>, <<-3, 1>> }

\* Atoms whose slope does not fit the 32-bit integers of the model checker.
WideSlopeAtoms ==
    { "Quecto", "Ronto", "Yocto", "Zepto", "Atto", "Femto", "Pico", "Tera",
      "Peta", "Exa", "Zetta", "Yotta", "Ronna", "Quetta", "Tebi", "Pebi",
      "Exbi", "CubicInch", "Pint", "Quart", "Gallon", "AU", "LightYear",
      "Parsec", "Dram" }

SlopesFit(u) ==
    Let(to_fraction(flatten(u)), LAMBDA f :
        \A k \in 1..Len(f[1] \o f[2]) : (f[1] \o f[2])[k].atom \notin WideSlopeAtoms)

InitUnit ==
    /\ overflow_checks = TRUE
    /\ op = "none"
    /\ ia = Single(0)
    /\ ib = Single(0)
    /\ ir = Single(0)
    /\ retries = 0
    /\ qa \in QuantityInputs
    /\ qb = NoQuantity
    /\ uto = NoUnit
    /\ qr = NoResult
    /\ qback = NoResult
    /\ ord = "None"
    /\ ua \in UnitInputs
    /\ ur = NoUnit
    /\ ur2 = NoUnit
    /\ flag = FALSE
    /\ si = NoSi
    /\ sym = ""
    /\ aligned = <<Single(0), Single(0)>>

UnitDone(name, result) ==
    /\ op = "none"
    /\ op' = name
    /\ ur' = result
    /\ UNCHANGED <<overflow_checks, ia, ib, ir, retries, qa, qb, uto, qr, qback, ord, ua,
                   ur2, flag,
                   si, sym, aligned>>

Flatten == UnitDone("flatten", flatten(ua))

Simplify == UnitDone("simplify", simplify(ua))

SimplifyAgain ==
    /\ op = "simplify"
    /\ op' = "simplify_again"
    /\ ur2' = simplify(ur)
    /\ UNCHANGED <<overflow_checks, ia, ib, ir, retries, qa, qb, uto, qr, qback, ord, ua,
                   ur, flag,
                   si, sym, aligned>>

DivSelf == UnitDone("div_self", Unit_div(ua, ua))

IsModifier ==
    /\ op = "none"
    /\ op' = "is_modifier"
    /\ flag' = is_modifier(ua)
    /\ UNCHANGED <<overflow_checks, ia, ib, ir, retries, qa, qb, uto, qr, qback, ord, ua,
                   ur, ur2,
                   si, sym, aligned>>

\* qa divided by a quantity of qa's own unit.
DivSame ==
    \E m \in Divisors :
        /\ op = "none"
        /\ op' = "div_same"
        /\ qb' = Quantity(m, qa.unit)
        /\ qr' = Quantity_div(qa, Quantity(m, qa.unit))
        /\ UNCHANGED <<overflow_checks, ia, ib, ir, retries, qa, uto, qback, ord, ua,
                       ur, ur2, flag,
                   si, sym, aligned>>

ApplyModifiers ==
    /\ op = "none"
    /\ op' = "apply_modifiers"
    /\ qr' = Returned(Quantity_apply_modifiers(qa))
    /\ UNCHANGED <<overflow_checks, ia, ib, ir, retries, qa, qb, uto, qback, ord, ua,
                   ur, ur2, flag,
                   si, sym, aligned>>

ToSiUnits ==
    /\ op = "none"
    /\ SlopesFit(qa.unit)
    /\ op' = "to_si_units"
    /\ qr' = Returned(Quantity_to_si_units(qa))
    /\ UNCHANGED <<overflow_checks, ia, ib, ir, retries, qa, qb, uto, qback, ord, ua,
                   ur, ur2, flag,
                   si, sym, aligned>>

\* a * b for positive a and b, held at 10^9 from there on.
CappedMul(a, b) ==
    IF a >= E10(9) \/ b >= E10(9) \/ a > E10(9) \div b THEN E10(9) ELSE a * b

\* The capped product of the slopes' numerators (part = 1) or denominators
\* (part = 2) over the members units.
RECURSIVE CappedSlope(_, _)
CappedSlope(units, part) ==
    IF units = <<>> THEN 1
    ELSE CappedMul(catalog_slope(Head(units).atom)[part], CappedSlope(Tail(units), part))

\* The units whose slope the model's integers hold: an atom outside
\* WideSlopeAtoms, or members whose running products stay below 10^9.
SlopeProductFits(u) ==
    /\ SlopesFit(u)
    /\ IsCompound(u) =>
            Let(to_fraction(flatten(u)), LAMBDA f :
                /\ CappedMul(CappedSlope(f[1], 1), CappedSlope(f[2], 2)) < E10(9)
                /\ CappedMul(CappedSlope(f[1], 2), CappedSlope(f[2], 1)) < E10(9))

UnitToSiUnits ==
    /\ op = "none"
    /\ SlopeProductFits(ua)
    /\ op' = "unit_to_si_units"
    /\ si' = to_si_units(ua)
    /\ UNCHANGED <<overflow_checks, ia, ib, ir, retries, qa, qb, uto, qr, qback, ord, ua,
                   ur, ur2, flag, sym, aligned>>

Symbol ==
    /\ op = "none"
    /\ op' = "symbol"
    /\ sym' = symbol(ua)
    /\ UNCHANGED <<overflow_checks, ia, ib, ir, retries, qa, qb, uto, qr, qback, ord, ua,
                   ur, ur2, flag, si, aligned>>

\* A quantity in the atomic unit ua is converted to the SI expression that
\* to_si_units gives for ua; atoms whose slope times the magnitude the model's
\* integers hold.
ConvertToSi ==
    /\ op = "none"
    /\ IsAtom(ua)
    /\ SlopesFit(ua)
    /\ CappedMul(catalog_slope(ua.atom)[1], 100) < E10(9)
    /\ CappedMul(catalog_slope(ua.atom)[2], 100) < E10(9)
    /\ op' = "convert_to_si"
    /\ uto' = to_si_units(ua)[3]
    /\ qr' = Quantity_convert_to(Quantity(qa.magnitude, ua), to_si_units(ua)[3])
    /\ UNCHANGED <<overflow_checks, ia, ib, ir, retries, qa, qb, qback, ord, ua,
                   ur, ur2, flag, si, sym, aligned>>

\* to_si_units applied to the quantity that to_si_units returned.
ToSiUnitsAgain ==
    /\ op = "to_si_units"
    /\ op' = "to_si_units_again"
    /\ qback' = Returned(Quantity_to_si_units(qr.q))
    /\ UNCHANGED <<overflow_checks, ia, ib, ir, retries, qa, qb, uto, qr, ord, ua,
                   ur, ur2, flag, si, sym, aligned>>

\* to_si_units applied to the quantity that apply_modifiers returned.
ApplyThenToSiUnits ==
    /\ op = "apply_modifiers"
    /\ SlopesFit(qa.unit)
    /\ op' = "apply_then_to_si_units"
    /\ qback' = Returned(Quantity_to_si_units(qr.q))
    /\ UNCHANGED <<overflow_checks, ia, ib, ir, retries, qa, qb, uto, qr, ord, ua,
                   ur, ur2, flag, si, sym, aligned>>

NextUnit ==
    \/ Flatten
    \/ Simplify
    \/ SimplifyAgain
    \/ DivSelf
    \/ IsModifier
    \/ DivSame
    \/ ApplyModifiers
    \/ ToSiUnits
    \/ UnitToSiUnits
    \/ Symbol
    \/ ConvertToSi
    \/ ToSiUnitsAgain
    \/ ApplyThenToSiUnits

SpecUnit == InitUnit /\ [][NextUnit]_vars

\* A scale prefix of the catalog: an atom whose SI expression is unitless.
ScalePrefix(u) == IsAtom(u) /\ si_expression(u.atom) = <<(<<>>), (<<>>)>>

\* C12: is_modifier is true for every SI decimal and IEC binary scale-prefix
\* atom of the catalog and false for every other unit (stated as the claim
\* states it; the code violates it).
C12_IsModifierIffScalePrefix ==
    op = "is_modifier" => (flag <=> ScalePrefix(ua))

NotScalePrefix(u) == ~ScalePrefix(u)

\* The product of the slopes of the scale prefixes of a member list, unreduced.
RECURSIVE PrefixProduct(_)
PrefixProduct(units) ==
    IF units = <<>> THEN <<1, 1>>
    ELSE IF ScalePrefix(Head(units))
    THEN <<slope_fraction(Head(units).atom)[1] * PrefixProduct(Tail(units))[1],
           slope_fraction(Head(units).atom)[2] * PrefixProduct(Tail(units))[2]>>
    ELSE PrefixProduct(Tail(units))

\* The flattened <<numerator, denominator>> of a unit.
Members(u) == to_fraction(flatten(u))

NoScalePrefix(u) ==
    \A k \in 1..Len(Members(u)[1] \o Members(u)[2]) :
        NotScalePrefix((Members(u)[1] \o Members(u)[2])[k])

\* C13: apply_modifiers returns a unit without scale-prefix atoms, the
\* magnitude multiplied by the slope of every prefix of the flattened numerator
\* and divided by that of every prefix of the flattened denominator, and the
\* other atoms kept and simplified; 13 Kilo*Meter is 13000 Meter, a prefix-free
\* unit comes back unchanged (stated as the claim states it; the code violates
\* it).
C13_ApplyModifiers ==
    op = "apply_modifiers" =>
        /\ NoScalePrefix(qr.q.unit)
        /\ qr.q.unit = simplify(Compound(SelectSeq(Members(qa.unit)[1], NotScalePrefix),
                                         SelectSeq(Members(qa.unit)[2], NotScalePrefix)))
        /\ LET pn == PrefixProduct(Members(qa.unit)[1])
               pd == PrefixProduct(Members(qa.unit)[2])
           IN qr.q.magnitude[1] * (qa.magnitude[2] * pn[2] * pd[1])
                = (qa.magnitude[1] * pn[1] * pd[2]) * qr.q.magnitude[2]
        /\ qa = Quantity(<<13, 1>>, KiloMeter) => qr.q = Quantity(<<13000, 1>>, Meter)
        /\ qa = Quantity(<<25, 1>>, MegaMeterPerKilo) =>
                qr.q = Quantity(<<25000, 1>>, Meter)
        /\ (NoScalePrefix(qa.unit) /\ simplify(qa.unit) = qa.unit) => qr.q = qa

\* C14: U / U is the unitless empty Compound for every atomic unit U, and a
\* quantity divided by a quantity of the same atomic unit is a unitless
\* quantity; 12 Meter / 999 Meter is 4/333 (stated as the claim states it; the
\* code violates it).
C14_SelfDivisionUnitless ==
    /\ (op = "div_self" /\ IsAtom(ua)) => ur = UNITLESS /\ is_unitless(ur)
    /\ (op = "div_same" /\ IsAtom(qa.unit)) =>
        /\ qr.ok
        /\ qr.q.unit = UNITLESS
        /\ RatEq(qr.q.magnitude,
                 <<qa.magnitude[1] * qb.magnitude[2], qa.magnitude[2] * qb.magnitude[1]>>)
        /\ (qa.magnitude = <<12, 1>> /\ qb.magnitude = <<999, 1>>) =>
                qr.q.magnitude = <<4, 333>>

\* C15: simplify is idempotent: simplifying a simplified unit returns it
\* unchanged, for atoms, flat Compounds and nested Compounds.
C15_SimplifyIdempotent ==
    op = "simplify_again" => ur2 = ur

\* C15 witness: a nested Compound with several pairs to cancel, simplified twice.
C15_Witness ==
    /\ op = "simplify_again"
    /\ ua = Compound(<<Compound(<<Meter, Second>>, <<Gram>>), Gram>>,
                     <<Compound(<<Second>>, <<Meter, Gram>>)>>)
    /\ ur = Compound(<<Meter, Meter, Gram>>, <<>>)
    /\ ur2 = ur

\* The base units of the catalog: the atoms that are their own SI expression
\* (Meter, Gram, Second, Kelvin, Ampere, Mole, Candela and Bit).
BaseAtoms == { a \in AtomNames : si_expression(a) = <<<<a>>, (<<>>)>> }

OnlyBaseAtomsAndKilo(u) ==
    \A k \in 1..Len(Members(u)[1] \o Members(u)[2]) :
        (Members(u)[1] \o Members(u)[2])[k].atom \in BaseAtoms \cup {"Kilo"}

\* C16: Quantity.to_si_units returns the magnitude (magnitude + offset) * slope
\* with the SI expression of the unit, (offset, slope, expression) being the
\* unit's to_si_units triple; the unit returned holds only base-unit atoms and
\* Kilo; 0 Celsius is 5463/20 Kelvin.
C16_QuantityToSiUnits ==
    op = "to_si_units" =>
        LET offset == to_si_units(qa.unit)[1]
            slope == to_si_units(qa.unit)[2]
        IN /\ qr.q.unit = to_si_units(qa.unit)[3]
           /\ OnlyBaseAtomsAndKilo(qr.q.unit)
           /\ RatEq(qr.q.magnitude,
                    <<(qa.magnitude[1] * offset[2] + offset[1] * qa.magnitude[2]) * slope[1],
                      qa.magnitude[2] * offset[2] * slope[2]>>)
           /\ qa = Quantity(<<0, 1>>, Atom("Celsius")) =>
                    qr.q = Quantity(<<5463, 20>>, Atom("Kelvin"))

\* C16 witness: 0 Celsius becomes 5463/20 Kelvin.
C16_Witness ==
    /\ op = "to_si_units"
    /\ qa = Quantity(<<0, 1>>, Atom("Celsius"))
    /\ qr = Returned(Quantity(<<5463, 20>>, Atom("Kelvin")))

(***************************************************************************)
(* The equality specification: two quantities whose magnitudes are pairs   *)
(* of ScalableIntegers in any tier, compared with ==.                      *)
(***************************************************************************)
EqNumerators == { Single(1), Double(1), Single(2), Big(2) }

EqDenominators == { Single(2), Big(2), Single(4), Double(4) }

EqUnits == { Meter, MeterSecond, SecondMeter }

EqInputs ==
    { Quantity(<<n, d>>, u) : n \in EqNumerators, d \in EqDenominators, u \in EqUnits }

InitEq ==
    /\ overflow_checks = TRUE
    /\ op = "none"
    /\ ia = Single(0)
    /\ ib = Single(0)
    /\ ir = Single(0)
    /\ retries = 0
    /\ qa \in EqInputs
    /\ qb \in EqInputs
    /\ uto = NoUnit
    /\ qr = NoResult
    /\ qback = NoResult
    /\ ord = "None"
    /\ ua = NoUnit
    /\ ur = NoUnit
    /\ ur2 = NoUnit
    /\ flag = FALSE
    /\ si = NoSi
    /\ sym = ""
    /\ aligned = <<Single(0), Single(0)>>

QuantityEq ==
    /\ op = "none"
    /\ op' = "eq"
    /\ flag' = Quantity_eq(qa, qb)
    /\ UNCHANGED <<overflow_checks, ia, ib, ir, retries, qa, qb, uto, qr, qback, ord, ua,
                   ur, ur2,
                   si, sym, aligned>>

NextEq == QuantityEq

SpecEq == InitEq /\ [][NextEq]_vars

\* C17: two Quantities are equal exactly when their units are structurally
\* equal and their magnitudes have equal numerators and equal denominators,
\* the integers compared by value whatever their tiers; nothing is reduced, so
\* 1/2 and 2/4 of one unit are unequal.
C17_QuantityEquality ==
    op = "eq" =>
        /\ flag <=> /\ qa.unit = qb.unit
                    /\ qa.magnitude[1].val = qb.magnitude[1].val
                    /\ qa.magnitude[2].val = qb.magnitude[2].val
        /\ (/\ qa.unit = qb.unit
            /\ qa.magnitude[1].val = 1 /\ qa.magnitude[2].val = 2
            /\ qb.magnitude[1].val = 2 /\ qb.magnitude[2].val = 4) => ~flag
        /\ (qa = Quantity(<<Single(1), Big(2)>>, Meter)
                /\ qb = Quantity(<<Double(1), Single(2)>>, Meter)) => flag

\* C17 witness: 1/2 Meter and 2/4 Meter compare unequal.
C17_Witness ==
    /\ op = "eq"
    /\ qa = Quantity(<<Single(1), Single(2)>>, Meter)
    /\ qb = Quantity(<<Single(2), Single(4)>>, Meter)
    /\ ~flag

\* The number of times atom a stands, in the members units and the members
\* nested in them, under an even number of denominators (inverted = FALSE) or
\* an odd number (inverted = TRUE).
RECURSIVE OccurrencesIn(_, _, _)
OccurrencesIn(units, a, inverted) ==
    IF units = <<>> THEN 0
    ELSE Let(Head(units), LAMBDA h :
             IF IsCompound(h)
             THEN OccurrencesIn(h.num, a, inverted) + OccurrencesIn(h.den, a, ~inverted)
             ELSE (IF h = a /\ ~inverted THEN 1 ELSE 0))
         + OccurrencesIn(Tail(units), a, inverted)

AllAtoms == { Atom(a) : a \in AtomNames }

NoNestedCompound(u) ==
    /\ \A k \in 1..Len(u.num) : IsAtom(u.num[k])
    /\ \A k \in 1..Len(u.den) : IsAtom(u.den[k])

\* C18: flatten returns a Compound none of whose members is a Compound, at
\* any nesting depth; an atom under an even number of denominators lands in
\* the numerator and one under an odd number in the denominator, each as many
\* times as it occurs (nothing is cancelled); a Compound of atoms and a bare
\* atom are returned unchanged; (Meter / Second) / Second flattens to
\* Meter / (Second * Second).
C18_Flatten ==
    op = "flatten" =>
        /\ IsAtom(ua) => ur = ua
        /\ IsCompound(ua) =>
            /\ IsCompound(ur)
            /\ NoNestedCompound(ur)
            /\ \A a \in AllAtoms :
                /\ Count(ur.num, a) = OccurrencesIn(<<ua>>, a, FALSE)
                /\ Count(ur.den, a) = OccurrencesIn(<<ua>>, a, TRUE)
            /\ NoNestedCompound(ua) => ur = ua
        /\ ua = Compound(<<Compound(<<Meter>>, <<Second>>)>>, <<Second>>)
            => ur = Compound(<<Meter>>, <<Second, Second>>)
        /\ ua = Compound(<<Meter>>, <<Compound(<<Meter>>, <<Second>>)>>)
            => ur = Compound(<<Meter, Second>>, <<Meter>>)

\* C18 witness: a Compound nested to depth three, in numerator and
\* denominator, is flattened without cancelling.
C18_Witness ==
    /\ op = "flatten"
    /\ ua = Compound(<<Meter, Compound(<<Second>>, <<Compound(<<Gram>>, <<Meter>>)>>)>>,
                     <<Compound(<<Compound(<<Second>>, <<Gram>>)>>, <<Second>>)>>)
    /\ ur = Compound(<<Meter, Second, Meter, Gram, Second>>, <<Gram, Second>>)

\* How many of s[1..k] equal s[k].
OccurrenceRank(s, k) == Cardinality({ j \in 1..k : s[j] = s[k] })

\* The indices of s left when, for each atom, its leftmost
\* min(count in s, count in t) occurrences are removed from s.
KeptIndices(s, t) ==
    { k \in 1..Len(s) :
        \/ OccurrenceRank(s, k) > Count(s, s[k])
        \/ OccurrenceRank(s, k) > Count(t, s[k]) }

\* The members of s at the indices K from k on, in their order in s.
RECURSIVE KeepFrom(_, _, _)
KeepFrom(s, K, k) ==
    IF k > Len(s) THEN <<>>
    ELSE (IF k \in K THEN <<s[k]>> ELSE <<>>) \o KeepFrom(s, K, k + 1)

FirstMatchCancelled(f) ==
    <<KeepFrom(f[1], KeptIndices(f[1], f[2]), 1), KeepFrom(f[2], KeptIndices(f[2], f[1]), 1)>>

\* C19: simplify removes, for each atom with a occurrences in the flattened
\* numerator and b in the flattened denominator, the leftmost min(a, b)
\* occurrences from each list and keeps the rest in their order; so no atom
\* stays on both sides and every atom keeps its net exponent.
C19_FirstMatchCancel ==
    op = "simplify" =>
        Let(Members(ua), LAMBDA f :
        Let(to_fraction(ur), LAMBDA r :
            /\ r = FirstMatchCancelled(f)
            /\ \A a \in AllAtoms :
                /\ Count(r[1], a) - Count(r[2], a) = Count(f[1], a) - Count(f[2], a)
                /\ Count(r[1], a) = 0 \/ Count(r[2], a) = 0))

\* C19 witness: Meter / (Meter * Second * Meter) loses the first Meter of the
\* denominator and keeps Second before the second Meter.
C19_Witness ==
    /\ op = "simplify"
    /\ ua = Compound(<<Meter>>, <<Meter, Second, Meter>>)
    /\ ur = Compound(<<>>, <<Second, Meter>>)

\* C20: with num and denom the lists left by the cancellation, simplify
\* returns num[0] when denom is empty and num has one member, Compound(num, [])
\* when denom is empty and num has none (the unitless unit) or several, and
\* Compound(num, denom) when denom is not empty, num empty included:
\* Year / (Ounce * Year) gives Compound([], [Ounce]).
C20_Collapse ==
    op = "simplify" =>
        Let(FirstMatchCancelled(Members(ua)), LAMBDA e :
            /\ (e[2] = <<>> /\ Len(e[1]) = 1) => (IsAtom(ur) /\ ur = e[1][1])
            /\ (e[2] = <<>> /\ Len(e[1]) = 0) => (ur = UNITLESS /\ is_unitless(ur))
            /\ (e[2] = <<>> /\ Len(e[1]) > 1) => ur = Compound(e[1], <<>>)
            /\ e[2] # <<>> => ur = Compound(e[1], e[2])
            /\ ua = Compound(<<Meter, Second>>, <<Second>>) => ur = Meter
            /\ ua = Compound(<<Meter>>, <<Meter>>) => ur = UNITLESS)

\* C20 witness: Year / (Ounce * Year) simplifies to the full Compound with an
\* empty numerator.
C20_Witness ==
    /\ op = "simplify"
    /\ ua = Compound(<<Atom("Year")>>, <<Atom("Ounce"), Atom("Year")>>)
    /\ ur = Compound(<<>>, <<Atom("Ounce")>>)

\* The lists Mul for Unit (inverted = FALSE) or Div for Unit (inverted = TRUE)
\* hands to simplify.
Appended(a, b, inverted) ==
    Let(to_fraction(a), LAMBDA fa :
    Let(to_fraction(b), LAMBDA fb :
        IF inverted THEN Compound(fa[1] \o fb[2], fa[2] \o fb[1])
        ELSE Compound(fa[1] \o fb[1], fa[2] \o fb[2])))

\* C21: a * b on units is simplify of a's numerator followed by b's numerator
\* over a's denominator followed by b's denominator, a / b is simplify of a's
\* numerator followed by b's denominator over a's denominator followed by b's
\* numerator; the product and the quotient of two quantities are returned,
\* with the product or quotient of the magnitudes in lowest terms and that
\* unit.
C21_MulDiv ==
    /\ op = "mul" =>
        /\ qr.ok
        /\ qr.q.unit = simplify(Appended(qa.unit, qb.unit, FALSE))
        /\ InLowestTerms(qr.q.magnitude)
        /\ RatEq(qr.q.magnitude, <<qa.magnitude[1] * qb.magnitude[1],
                                   qa.magnitude[2] * qb.magnitude[2]>>)
    /\ op = "div" =>
        /\ qr.ok
        /\ qr.q.unit = simplify(Appended(qa.unit, qb.unit, TRUE))
        /\ InLowestTerms(qr.q.magnitude)
        /\ RatEq(qr.q.magnitude, <<qa.magnitude[1] * qb.magnitude[2],
                                   qa.magnitude[2] * qb.magnitude[1]>>)

\* The sum of the offsets to_si_units gives for the members units.
RECURSIVE OffsetSum(_)
OffsetSum(units) ==
    IF units = <<>> THEN zero
    ELSE Ratio_add(to_si_units(Head(units))[1], OffsetSum(Tail(units)))

\* The product of the slopes to_si_units gives for the members units, as a
\* fraction that need not be in lowest terms.
RECURSIVE SlopeProduct(_)
SlopeProduct(units) ==
    IF units = <<>> THEN <<1, 1>>
    ELSE Let(to_si_units(Head(units))[2], LAMBDA n_slope :
         Let(SlopeProduct(Tail(units)), LAMBDA rest :
             <<n_slope[1] * rest[1], n_slope[2] * rest[2]>>))

\* The SI expressions to_si_units gives for the members units, in their order.
SiExpressions(units) == [k \in 1..Len(units) |-> to_si_units(units[k])[3]]

\* C22: for a Compound, to_si_units returns the sum of the offsets of all
\* flattened members of both sides, the product of the slopes of the
\* numerator's members divided by the product of the slopes of the
\* denominator's members, and simplify of the Compound of the members' SI
\* expressions in member order.
C22_CompoundToSiUnits ==
    (op = "unit_to_si_units" /\ IsCompound(ua)) =>
        Let(Members(ua), LAMBDA f :
        Let(SlopeProduct(f[1]), LAMBDA n :
        Let(SlopeProduct(f[2]), LAMBDA d :
            /\ si[1] = OffsetSum(f[1] \o f[2])
            /\ si[2] = Ratio_reduce(new_raw(n[1] * d[2], n[2] * d[1]))
            /\ InLowestTerms(si[2])
            /\ si[3] = simplify(Compound(SiExpressions(f[1]), SiExpressions(f[2]))))))

\* C22 witness: (Kilo * Inch) / (Minute * Milli) has slope
\* (1000 * 127/5000) / (60 * 1/1000) = 1270/3 and unit Meter / Second, and
\* Celsius / Fahrenheit has the offset 5463/20 + 45967/100.
C22_Witness ==
    /\ op = "unit_to_si_units"
    /\ ua = Compound(<<Atom("Kilo"), Atom("Inch")>>, <<Atom("Minute"), Atom("Milli")>>)
    /\ si = <<zero, <<1270, 3>>, Compound(<<Meter>>, <<Second>>)>>

\* The indices of units whose rendered symbol no earlier member has.
FirstSeen(units) ==
    { k \in 1..Len(units) : \A j \in 1..(k - 1) : symbol(units[j]) # symbol(units[k]) }

\* The term of the members rendered as units[k] is: the symbol, with ^n when
\* n > 1 members render so.
Term(units, k) ==
    Let(Cardinality({ j \in 1..Len(units) : symbol(units[j]) = symbol(units[k]) }),
        LAMBDA n :
            IF n > 1 THEN symbol(units[k]) \o "^" \o ToString(n) ELSE symbol(units[k]))

\* The terms of the first-seen members from index k on, joined.
RECURSIVE Rendered(_, _)
Rendered(units, k) ==
    IF k > Len(units) THEN ""
    ELSE (IF k \in FirstSeen(units) THEN Term(units, k) ELSE "") \o Rendered(units, k + 1)

FirstOfAtom(units) ==
    { k \in 1..Len(units) : \A j \in 1..(k - 1) : units[j] # units[k] }

\* The term of the atom units[k]: its symbol, with ^n when the atom occurs
\* n > 1 times in units.
AtomTerm(units, k) ==
    IF Count(units, units[k]) > 1
    THEN symbol(units[k]) \o "^" \o ToString(Count(units, units[k]))
    ELSE symbol(units[k])

\* One term for each atom of units, in first-seen order, joined.
RECURSIVE RenderedByAtom(_, _)
RenderedByAtom(units, k) ==
    IF k > Len(units) THEN ""
    ELSE (IF k \in FirstOfAtom(units) THEN AtomTerm(units, k) ELSE "")
         \o RenderedByAtom(units, k + 1)

\* C30: in the symbol of a flattened Compound every atom of a side has a term
\* of its own, with ^n only when that atom occurs n times on the side; Milli
\* and Meter are written as two terms.
C30_AtomsNotMerged ==
    (op = "symbol" /\ IsCompound(ua) /\ NoNestedCompound(ua) /\ ua # UNITLESS) =>
        /\ ua.den = <<>> => sym = RenderedByAtom(ua.num, 1)
        /\ ua.num = <<>> => sym = "1/" \o RenderedByAtom(ua.den, 1)
        /\ (ua.num # <<>> /\ ua.den # <<>>)
            => sym = RenderedByAtom(ua.num, 1) \o "/" \o RenderedByAtom(ua.den, 1)
        /\ ua = Compound(<<Atom("Milli"), Meter>>, <<>>) => sym = "mm"

\* C24: max_size returns two values of one tier, the larger of the operands'
\* tiers, each with its operand's value, so the match of eq, add, mul, div,
\* gcd and lcm never takes its unreachable arm, neither at first nor when add,
\* mul and div promote both values and start over.
C24_TierMismatchUnreachable ==
    op = "max_size" =>
        /\ aligned[1].tier = aligned[2].tier
        /\ TierRank(aligned[1]) = (IF TierRank(ia) > TierRank(ib) THEN TierRank(ia)
                                   ELSE TierRank(ib))
        /\ aligned[1].val = ia.val
        /\ aligned[2].val = ib.val
        /\ match_arm(aligned[1], aligned[2]) # "unreachable"
        /\ Let(max_size(promote_size(aligned[1]), promote_size(aligned[2])), LAMBDA retry :
               match_arm(retry[1], retry[2]) # "unreachable")

\* C24 witness: a Big and a Single operand are aligned to two Bigs.
C24_Witness ==
    /\ op = "max_size"
    /\ ia.tier = "Big"
    /\ ib.tier = "Single"
    /\ aligned = <<Big(ia.val), Big(ib.val)>>

(***************************************************************************)
(* The unit algebra: units built from atoms by any sequence of * and /.    *)
(* ua is the unit built last and ur the one built before it; each step     *)
(* multiplies or divides two of the units at hand.                         *)
(***************************************************************************)
MaxAlgebraMembers == 3

AlgebraAtoms == { Meter, Second }

MemberCount(u) == Len(to_fraction(u)[1]) + Len(to_fraction(u)[2])

InitAlgebra ==
    /\ overflow_checks = TRUE
    /\ op = "none"
    /\ ia = Single(0)
    /\ ib = Single(0)
    /\ ir = Single(0)
    /\ retries = 0
    /\ qa = NoQuantity
    /\ qb = NoQuantity
    /\ uto = NoUnit
    /\ qr = NoResult
    /\ qback = NoResult
    /\ ord = "None"
    /\ ua \in AlgebraAtoms
    /\ ur \in AlgebraAtoms
    /\ ur2 = NoUnit
    /\ flag = FALSE
    /\ si = NoSi
    /\ sym = ""
    /\ aligned = <<Single(0), Single(0)>>

AlgebraDone(name, result) ==
    /\ MemberCount(result) <= MaxAlgebraMembers
    /\ op' = name
    /\ ua' = result
    /\ ur' = ua
    /\ UNCHANGED <<overflow_checks, ia, ib, ir, retries, qa, qb, uto, qr, qback, ord,
                   ur2, flag, si, sym, aligned>>

UnitMul ==
    \E a, b \in {ua, ur} \cup AlgebraAtoms : AlgebraDone("unit_mul", Unit_mul(a, b))

UnitDiv ==
    \E a, b \in {ua, ur} \cup AlgebraAtoms : AlgebraDone("unit_div", Unit_div(a, b))

NextAlgebra ==
    \/ UnitMul
    \/ UnitDiv

SpecAlgebra == InitAlgebra /\ [][NextAlgebra]_vars

\* Simplified normal form: an atom, or a Compound of atoms none of which is
\* on both sides and which is not a single numerator atom over nothing.
NormalForm(u) ==
    \/ IsAtom(u)
    \/ /\ NoNestedCompound(u)
       /\ \A k \in 1..Len(u.num) : Count(u.den, u.num[k]) = 0
       /\ ~(Len(u.num) = 1 /\ u.den = <<>>)

\* C25: every unit obtained from atomic units by a sequence of unit
\* multiplications and divisions is in simplified normal form.
C25_AlgebraNormalForm == NormalForm(ua) /\ NormalForm(ur)

\* C25 witness: Meter / Second divided by Second once more.
C25_Witness ==
    /\ op = "unit_div"
    /\ ur = Compound(<<Meter>>, <<Second>>)
    /\ ua = Compound(<<Meter>>, <<Second, Second>>)

\* C26: for every atomic unit U a quantity in U converts, with Ok, to the SI
\* expression the catalog gives for U.
C26_ConvertToOwnSi ==
    op = "convert_to_si" => (qr.ok /\ qr.q.unit = uto)

\* C27: to_si_units applied to the result of to_si_units returns that result.
C27_ToSiUnitsIdempotent ==
    op = "to_si_units_again" => qback = qr

\* C28: the slope to_si_units returns for a unit, atomic or Compound at any
\* nesting, is above zero and in lowest terms with a positive denominator, and
\* the divisions by a slope in apply_modifiers and convert_to do not fail.
C28_SlopePositiveReduced ==
    /\ op = "unit_to_si_units" =>
        /\ si[2][1] > 0
        /\ si[2][2] > 0
        /\ MathGcd(si[2][1], si[2][2]) = 1
    /\ op = "apply_modifiers" => qr.q.magnitude # RatioPanic
    /\ op = "convert_to_si" => ~qr.panic

\* C28 witness: Meter / (Second / Fahrenheit) has the slope
\* 13889/25000 of its Fahrenheit member, which two nested denominators put
\* back on the numerator's side.
C28_Witness ==
    /\ op = "unit_to_si_units"
    /\ ua = Compound(<<Meter>>, <<Compound(<<Second>>, <<Atom("Fahrenheit")>>)>>)
    /\ si[2] = <<13889, 25000>>

OffsetAtoms == { Atom("Celsius"), Atom("Fahrenheit") }

NoOffsetAtom(u) ==
    \A k \in 1..Len(Members(u)[1] \o Members(u)[2]) :
        (Members(u)[1] \o Members(u)[2])[k] \notin OffsetAtoms

\* No atom of the flattened unit stands on both of its sides.
NoSharedAtom(u) ==
    \A k \in 1..Len(Members(u)[1]) : Count(Members(u)[2], Members(u)[1][k]) = 0

====
